---- MODULE Spec2Model ----
(***************************************************************************)
(* A model of the NNTP client of kothawoc/go-nntp (package nntpclient).    *)
(*                                                                         *)
(* A string is a sequence of one-character strings, so that the code's     *)
(* ToUpper, Split, Fields, IndexAny, ParseInt and Sprintf are computed on  *)
(* characters.  Every operation of Client is one action; the transport's   *)
(* answers (write outcome, status line, data block) are the action's       *)
(* inputs.  The variable last records what the last call wrote, read and   *)
(* returned.                                                               *)
(***************************************************************************)
EXTENDS Integers, Sequences, FiniteSets, TLC

VARIABLES conn, netconn, tls, Banner, capabilities, fetched, last

vars == <<conn, netconn, tls, Banner, capabilities, fetched, last>>

(***************************************************************************)
(* Bounds of the model.                                                    *)
(***************************************************************************)
MaxCapLines == 2
MaxOverLines == 2
MaxListLines == 2
MaxOverArgs == 3
MaxPostLines == 2

(***************************************************************************)
(* Strings.                                                                *)
(***************************************************************************)
Lower == <<"a","b","c","d","e","f","g","h","i","j","k","l","m",
           "n","o","p","q","r","s","t","u","v","w","x","y","z">>
Upper == <<"A","B","C","D","E","F","G","H","I","J","K","L","M",
           "N","O","P","Q","R","S","T","U","V","W","X","Y","Z">>
Digits == <<"0","1","2","3","4","5","6","7","8","9">>

\* unicode.ToUpper on one character
UpChar(c) ==
    IF \E i \in 1..26 : Lower[i] = c
    THEN Upper[CHOOSE i \in 1..26 : Lower[i] = c]
    ELSE c

\* strings.ToUpper
RECURSIVE ToUpper(_)
ToUpper(s) == IF s = <<>> THEN <<>> ELSE <<UpChar(s[1])>> \o ToUpper(Tail(s))

\* unicode.IsSpace, as strings.Fields uses it
IsSpace(c) == c \in {" ", "\t", "\n", "\r", "\f"}

\* strings.IndexAny(s, chars): the first index (from 1) of a character of
\* chars in s, or 0 where Go returns -1
IndexAny(s, chars) ==
    IF \E i \in 1..Len(s) : s[i] \in chars
    THEN CHOOSE i \in 1..Len(s) : s[i] \in chars /\ \A j \in 1..(i-1) : s[j] \notin chars
    ELSE 0

\* strings.Split(s, sep) for a one-character separator: always at least one
\* field, empty fields kept
RECURSIVE Split(_, _)
Split(s, sep) ==
    LET i == IndexAny(s, {sep}) IN
    IF i = 0 THEN <<s>>
    ELSE <<SubSeq(s, 1, i-1)>> \o Split(SubSeq(s, i+1, Len(s)), sep)

\* strings.SplitN(s, sep, 2)
SplitN2(s, sep) ==
    LET i == IndexAny(s, {sep}) IN
    IF i = 0 THEN <<s>>
    ELSE <<SubSeq(s, 1, i-1), SubSeq(s, i+1, Len(s))>>

\* strings.Fields: the maximal runs of non-space characters
RECURSIVE Fields(_)
Fields(s) ==
    IF s = <<>> THEN <<>>
    ELSE IF IsSpace(s[1]) THEN Fields(Tail(s))
    ELSE LET sp == {i \in 1..Len(s) : IsSpace(s[i])}
             e  == IF sp = {} THEN Len(s) + 1
                   ELSE CHOOSE i \in sp : \A j \in sp : i <= j
         IN <<SubSeq(s, 1, e-1)>> \o Fields(SubSeq(s, e, Len(s)))

DigitVal(c) == (CHOOSE i \in 1..10 : Digits[i] = c) - 1
IsDigit(c) == \E i \in 1..10 : Digits[i] = c

RECURSIVE DecValue(_)
DecValue(ds) ==
    IF ds = <<>> THEN 0
    ELSE 10 * DecValue(SubSeq(ds, 1, Len(ds)-1)) + DigitVal(ds[Len(ds)])

\* strconv.ParseInt(s, 10, 64): an optional sign, then one or more decimal
\* digits.  The strings of this model are far shorter than 19 digits, so the
\* range error of ParseInt does not arise.
ParseInt(s) ==
    LET signed == s # <<>> /\ s[1] \in {"+", "-"}
        ds     == IF signed THEN Tail(s) ELSE s
    IN IF ds = <<>> \/ \E i \in 1..Len(ds) : ~IsDigit(ds[i])
       THEN [ok |-> FALSE, val |-> 0]
       ELSE [ok |-> TRUE,
             val |-> IF signed /\ s[1] = "-" THEN 0 - DecValue(ds) ELSE DecValue(ds)]

\* fmt.Sprintf("%d", n)
RECURSIVE FmtNat(_)
FmtNat(n) ==
    IF n < 10 THEN <<Digits[n+1]>>
    ELSE FmtNat(n \div 10) \o <<Digits[(n % 10) + 1]>>

FmtD(n) == IF n < 0 THEN <<"-">> \o FmtNat(0 - n) ELSE FmtNat(n)

(***************************************************************************)
(* Go values: errors and slices.                                           *)
(***************************************************************************)
NoErr == [kind |-> "nil", code |-> 0, msg |-> <<>>]

\* errors.New(text), a transport error, a run-time panic: no code, no message
Err(kind) == [kind |-> kind, code |-> 0, msg |-> <<>>]

\* &textproto.Error{code, msg}: the code mismatch of ReadCodeLine
ProtoErr(code, msg) == [kind |-> "proto", code |-> code, msg |-> msg]

\* a nil slice and a non-nil slice (possibly of length 0)
NilSlice == [isNil |-> TRUE, elems |-> <<>>]
Slice(xs) == [isNil |-> FALSE, elems |-> xs]

(***************************************************************************)
(* Connections.  Sock is the connection the session was created on; the    *)
(* zero value of the field netconn is the nil interface.                   *)
(***************************************************************************)
Sock == [kind |-> "sock", under |-> "none", cfgOK |-> TRUE]
NilConn == [kind |-> "nil", under |-> "none", cfgOK |-> TRUE]

\* tls.Client(n, config): a TLS connection over n that has not yet shaken
\* hands; cfgOK says whether config names a server (or skips verification)
TlsClient(n, cfgOK) == [kind |-> "tls", under |-> n.kind, cfgOK |-> cfgOK]

\* textproto.NewConn(n): a line reader/writer bound to n
NewConn(n) == [rw |-> n]

\* The first write or read on a TLS connection runs the handshake.  Over the
\* nil interface the handshake cannot be done: a config without a server name
\* is rejected before any byte is sent, and otherwise the first record is
\* written to the nil connection, which panics.
HandshakeFails(c) == c.rw.kind = "tls" /\ c.rw.under = "nil"
HandshakeErr(c) ==
    IF c.rw.cfgOK THEN Err("panic: nil dereference") ELSE Err("tls handshake")

\* conn.PrintfLine(line): one line written and flushed; wok is whether the
\* connection takes the write
PrintfLine(c, line, wok) ==
    IF HandshakeFails(c) THEN [err |-> HandshakeErr(c), wrote |-> <<>>]
    ELSE IF ~wok THEN [err |-> Err("write"), wrote |-> <<>>]
    ELSE [err |-> NoErr, wrote |-> <<line>>]

\* The server's answers: a status line with a three-digit code and a message,
\* a line too short to hold a code, or the end of the stream.
NoResp == [kind |-> "none", code |-> 0, msg |-> <<>>]
EofResp == [kind |-> "eof", code |-> 0, msg |-> <<>>]
ShortResp == [kind |-> "short", code |-> 0, msg |-> <<>>]
Line(code, msg) == [kind |-> "line", code |-> code, msg |-> msg]

\* textproto's ReadCodeLine(expectCode): reads one line; a code that does not
\* match expectCode is an error carrying the code and the message
ReadCodeLine(expectCode, resp) ==
    IF resp.kind = "eof" THEN [code |-> 0, msg |-> <<>>, err |-> Err("read")]
    ELSE IF resp.kind = "short"
    THEN [code |-> 0, msg |-> <<>>, err |-> Err("short response")]
    ELSE [code |-> resp.code, msg |-> resp.msg,
          err |-> IF \/ 1 <= expectCode /\ expectCode < 10
                        /\ resp.code \div 100 # expectCode
                     \/ 10 <= expectCode /\ expectCode < 100
                        /\ resp.code \div 10 # expectCode
                     \/ 100 <= expectCode /\ expectCode < 1000
                        /\ resp.code # expectCode
                  THEN ProtoErr(resp.code, resp.msg) ELSE NoErr]

\* A data block as ReadDotLines returns it: the lines read (a nil slice when
\* there is none, since the lines are appended to a nil slice) and the error
NoBlock == [ok |-> TRUE, lines |-> <<>>]
ReadDotLines(blk) ==
    [v   |-> IF blk.lines = <<>> THEN NilSlice ELSE Slice(blk.lines),
     err |-> IF blk.ok THEN NoErr ELSE Err("read")]

(***************************************************************************)
(* Command lines.                                                          *)
(***************************************************************************)
S_CAPABILITIES == <<"C","A","P","A","B","I","L","I","T","I","E","S">>
S_STARTTLS == <<"S","T","A","R","T","T","L","S">>
S_OVER == <<"O","V","E","R">>
S_LIST == <<"L","I","S","T">>
S_AUTHUSER == <<"a","u","t","h","i","n","f","o"," ","u","s","e","r"," ">>
S_AUTHPASS == <<"a","u","t","h","i","n","f","o"," ","p","a","s","s"," ">>

(***************************************************************************)
(* Client.Command and Client.asLines.  An environment e gives the          *)
(* transport's part in one call: e.wok, e.resp and (for asLines) e.blk.    *)
(* Each method is written as its steps in order, the result of one step    *)
(* being the parameter of the next.  A result holds, beside the values     *)
(* returned, the lines written (wrote) and the status lines read (reads).  *)
(***************************************************************************)
\* fmt.Sprintf(format) without arguments, as PrintfLine(cmd) formats cmd:
\* %% is a percent sign, a % before another character c has no argument to
\* print, and a % at the end has no verb
RECURSIVE Sprintf0(_)
Sprintf0(f) ==
    IF f = <<>> THEN <<>>
    ELSE IF f[1] # "%" THEN <<f[1]>> \o Sprintf0(Tail(f))
    ELSE IF Len(f) = 1 THEN <<"%","!","(","N","O","V","E","R","B",")">>
    ELSE IF f[2] = "%" THEN <<"%">> \o Sprintf0(SubSeq(f, 3, Len(f)))
    ELSE <<"%","!",f[2],"(","M","I","S","S","I","N","G",")">>
         \o Sprintf0(SubSeq(f, 3, Len(f)))

\* Command after its PrintfLine returned p and ReadCodeLine returned r
CommandRead(p, r, resp) ==
    [code |-> r.code, msg |-> r.msg, err |-> r.err, wrote |-> p.wrote,
     reads |-> <<resp>>]

\* Command going on to read a line after its write failed
CommandWrittenMutReadAnyway(p, expectCode, resp) ==
    CommandRead(p, ReadCodeLine(expectCode, resp), resp)

CommandWritten(p, expectCode, resp) ==
    IF p.err # NoErr
    THEN [code |-> 0, msg |-> <<>>, err |-> p.err, wrote |-> p.wrote, reads |-> <<>>]
    ELSE CommandRead(p, ReadCodeLine(expectCode, resp), resp)

\* Command with the expected code not passed on to ReadCodeLine
CommandMutNoExpect(c, cmd, expectCode, e) ==
    CommandWritten(PrintfLine(c, Sprintf0(cmd), e.wok), -1, e.resp)

Command(c, cmd, expectCode, e) ==
    CommandWritten(PrintfLine(c, Sprintf0(cmd), e.wok), expectCode, e.resp)

\* asLines after its Command returned r
asLinesBlock(r, b) ==
    [v |-> b.v, err |-> b.err, wrote |-> r.wrote, reads |-> r.reads, nblock |-> 1]

asLinesCommanded(r, blk) ==
    IF r.err # NoErr
    THEN [v |-> NilSlice, err |-> r.err, wrote |-> r.wrote, reads |-> r.reads,
          nblock |-> 0]
    ELSE asLinesBlock(r, ReadDotLines(blk))

asLines(c, cmd, expectCode, e) ==
    asLinesCommanded(Command(c, cmd, expectCode, e), e.blk)

(***************************************************************************)
(* Client.Capabilities, GetCapability, HasCapabilityArgument.              *)
(***************************************************************************)
\* Capabilities with the lines cached as received, not uppercased
CapabilitiesLinesMutNoUpper(r) ==
    IF r.err # NoErr
    THEN [caps |-> NilSlice, set |-> FALSE, err |-> r.err,
          wrote |-> r.wrote, reads |-> r.reads, nblock |-> r.nblock]
    ELSE [caps |-> r.v, set |-> TRUE, err |-> NoErr,
          wrote |-> r.wrote, reads |-> r.reads, nblock |-> r.nblock]

\* the loop of Capabilities: every line uppercased
RECURSIVE UpperLines(_)
UpperLines(caps) ==
    IF caps = <<>> THEN <<>> ELSE <<ToUpper(caps[1])>> \o UpperLines(Tail(caps))

\* Capabilities after its asLines returned r.  caps: the lines returned;
\* set: whether c.capabilities was assigned
CapabilitiesLines(r) ==
    IF r.err # NoErr
    THEN [caps |-> NilSlice, set |-> FALSE, err |-> r.err,
          wrote |-> r.wrote, reads |-> r.reads, nblock |-> r.nblock]
    ELSE [caps |-> [isNil |-> r.v.isNil, elems |-> UpperLines(r.v.elems)],
          set |-> TRUE, err |-> NoErr,
          wrote |-> r.wrote, reads |-> r.reads, nblock |-> r.nblock]

Capabilities(c, e) == CapabilitiesLines(asLines(c, S_CAPABILITIES, 101, e))

\* one turn of GetCapability's loop: whether the line capa is returned, i
\* being IndexAny(capa, "\t ")
CapabilityMatches(capa, i, capability) ==
    \/ i # 0 /\ SubSeq(capa, 1, i-1) = capability
    \/ capa = capability

\* the loop of GetCapability over the lines from index k on; the empty
\* string when none matches
RECURSIVE GetCapabilityFrom(_, _, _)
GetCapabilityFrom(lines, capability, k) ==
    IF k > Len(lines) THEN <<>>
    ELSE IF CapabilityMatches(lines[k], IndexAny(lines[k], {"\t", " "}), capability)
    THEN lines[k]
    ELSE GetCapabilityFrom(lines, capability, k+1)

\* GetCapability with the label compared as given, not uppercased
GetCapabilityMutNoUpper(caps, capability) ==
    GetCapabilityFrom(caps.elems, capability, 1)

GetCapability(caps, capability) ==
    GetCapabilityFrom(caps.elems, ToUpper(capability), 1)

\* HasCapabilityArgument after Fields(capLine) returned fs
HasArgumentIn(fs, argument) ==
    IF Len(fs) < 1
    THEN [val |-> FALSE, err |-> Err("panic: slice bounds out of range")]
    ELSE [val |-> \E j \in 2..Len(fs) : fs[j] = argument, err |-> NoErr]

\* HasCapabilityArgument after GetCapability returned capLine
HasArgumentOnLine(capLine, argument) ==
    IF capLine = <<>>
    THEN [val |-> FALSE, err |-> Err("No such capability")]
    ELSE HasArgumentIn(Fields(capLine), ToUpper(argument))

HasCapabilityArgument(caps, capability, argument) ==
    IF caps.isNil
    THEN [val |-> FALSE, err |-> Err("Capabilities unpopulated")]
    ELSE HasArgumentOnLine(GetCapability(caps, capability), argument)

(***************************************************************************)
(* Client.Authenticate.  e1 is the transport's part in the AUTHINFO USER   *)
(* step, e2 in the AUTHINFO PASS step.                                     *)
(***************************************************************************)
AuthPassRead(p1, p2, r2, e1, e2) ==
    [msg |-> r2.msg, err |-> r2.err, wrote |-> p1.wrote \o p2.wrote,
     reads |-> <<e1.resp, e2.resp>>]

AuthPassWritten(p1, p2, e1, e2) ==
    IF p2.err # NoErr
    THEN [msg |-> <<>>, err |-> p2.err, wrote |-> p1.wrote \o p2.wrote,
          reads |-> <<e1.resp>>]
    ELSE AuthPassRead(p1, p2, ReadCodeLine(281, e2.resp), e1, e2)

\* Authenticate going on to AUTHINFO PASS whatever the first answer was
AuthUserReadMutContinue(c, pass, p1, r1, e1, e2) ==
    AuthPassWritten(p1, PrintfLine(c, S_AUTHPASS \o pass, e2.wok), e1, e2)

AuthUserRead(c, pass, p1, r1, e1, e2) ==
    IF r1.err # NoErr
    THEN [msg |-> <<>>, err |-> r1.err, wrote |-> p1.wrote, reads |-> <<e1.resp>>]
    ELSE AuthPassWritten(p1, PrintfLine(c, S_AUTHPASS \o pass, e2.wok), e1, e2)

AuthUserWritten(c, pass, p1, e1, e2) ==
    IF p1.err # NoErr
    THEN [msg |-> <<>>, err |-> p1.err, wrote |-> p1.wrote, reads |-> <<>>]
    ELSE AuthUserRead(c, pass, p1, ReadCodeLine(381, e1.resp), e1, e2)

Authenticate(c, user, pass, e1, e2) ==
    AuthUserWritten(c, pass, PrintfLine(c, S_AUTHUSER \o user, e1.wok), e1, e2)

(***************************************************************************)
(* Client.StartTLS.  s is the session (its fields), e1 the transport's     *)
(* part in the STARTTLS command, e2 in the CAPABILITIES command.  The      *)
(* result holds the fields after the call.                                 *)
(***************************************************************************)
\* StartTLS after c.netconn, c.conn and c.tls were assigned and Capabilities
\* returned k
\* StartTLS setting c.tls only when the refetch succeeded
StartTLSRefetchedMutFlagLate(s, r, nc, k) ==
    [conn |-> NewConn(nc), netconn |-> nc, tls |-> k.err = NoErr,
     capabilities |-> IF k.set THEN k.caps ELSE s.capabilities,
     err |-> k.err, wrote |-> r.wrote, reads |-> r.reads,
     capWrote |-> k.wrote, capReads |-> k.reads, capBlock |-> k.nblock,
     capSet |-> k.set]

StartTLSRefetched(s, r, nc, k) ==
    [conn |-> NewConn(nc), netconn |-> nc, tls |-> TRUE,
     capabilities |-> IF k.set THEN k.caps ELSE s.capabilities,
     err |-> k.err, wrote |-> r.wrote, reads |-> r.reads,
     capWrote |-> k.wrote, capReads |-> k.reads, capBlock |-> k.nblock,
     capSet |-> k.set]

StartTLSUpgrade(s, r, nc, e2) ==
    StartTLSRefetched(s, r, nc, Capabilities(NewConn(nc), e2))

\* StartTLS after its Command returned r
StartTLSCommanded(s, r, cfgOK, e2) ==
    IF r.err # NoErr
    THEN [s EXCEPT !.err = r.err, !.wrote = r.wrote, !.reads = r.reads]
    ELSE StartTLSUpgrade(s, r, TlsClient(s.netconn, cfgOK), e2)

\* StartTLS without the test of c.tls
StartTLSMutNoCheck(s, cfgOK, e1, e2) ==
    StartTLSCommanded(s, Command(s.conn, S_STARTTLS, 382, e1), cfgOK, e2)

StartTLS(s, cfgOK, e1, e2) ==
    IF s.tls
    THEN [s EXCEPT !.err = Err("TLS already active")]
    ELSE StartTLSCommanded(s, Command(s.conn, S_STARTTLS, 382, e1), cfgOK, e2)

\* the session as StartTLS takes it, nothing yet written or read
Session ==
    [conn |-> conn, netconn |-> netconn, tls |-> tls, capabilities |-> capabilities,
     err |-> NoErr, wrote |-> <<>>, reads |-> <<>>,
     capWrote |-> <<>>, capReads |-> <<>>, capBlock |-> 0, capSet |-> FALSE]

(***************************************************************************)
(* Client.Over.                                                            *)
(***************************************************************************)
\* the switch with the range rendered with a space, not a dash
OverCmdMutSpace(args) ==
    IF Len(args) = 0 THEN [ok |-> TRUE, cmd |-> S_OVER]
    ELSE IF Len(args) = 1 THEN [ok |-> TRUE, cmd |-> S_OVER \o <<" ">> \o FmtD(args[1])]
    ELSE IF Len(args) = 2
    THEN [ok |-> TRUE,
          cmd |-> S_OVER \o <<" ">> \o FmtD(args[1]) \o <<" ">> \o FmtD(args[2])]
    ELSE [ok |-> FALSE, cmd |-> <<>>]

\* the switch on len(args); ok is FALSE in the default case
OverCmd(args) ==
    IF Len(args) = 0 THEN [ok |-> TRUE, cmd |-> S_OVER]
    ELSE IF Len(args) = 1 THEN [ok |-> TRUE, cmd |-> S_OVER \o <<" ">> \o FmtD(args[1])]
    ELSE IF Len(args) = 2
    THEN [ok |-> TRUE,
          cmd |-> S_OVER \o <<" ">> \o FmtD(args[1]) \o <<"-">> \o FmtD(args[2])]
    ELSE [ok |-> FALSE, cmd |-> <<>>]

\* the OverItem literal; the fields of the split line are numbered from 1 here
OverItem(splitItem) ==
    [Number        |-> splitItem[1],
     Subject       |-> splitItem[2],
     From          |-> splitItem[3],
     Date          |-> splitItem[4],
     MessageId     |-> splitItem[5],
     References    |-> splitItem[6],
     bytesMetadata |-> splitItem[7],
     linesMetadata |-> splitItem[8]]

\* the loop over the lines from index k on, ret being the items so far; an
\* index past the end of splitItem panics
RECURSIVE OverLoop(_, _, _)
OverLoop(lines, k, ret) ==
    IF k > Len(lines) THEN [ret |-> Slice(ret), err |-> NoErr]
    ELSE IF Len(Split(lines[k], "\t")) < 5 THEN OverLoop(lines, k+1, ret)
    ELSE IF Len(Split(lines[k], "\t")) < 8
    THEN [ret |-> NilSlice, err |-> Err("panic: index out of range")]
    ELSE OverLoop(lines, k+1, Append(ret, OverItem(Split(lines[k], "\t"))))

\* Over after the loop returned l
OverReturn(r, l) ==
    [ret |-> l.ret, err |-> l.err, wrote |-> r.wrote, reads |-> r.reads,
     nblock |-> r.nblock]

\* Over after its asLines returned r
OverLines(r) ==
    IF r.err # NoErr
    THEN [ret |-> NilSlice, err |-> r.err, wrote |-> r.wrote, reads |-> r.reads,
          nblock |-> r.nblock]
    ELSE OverReturn(r, OverLoop(r.v.elems, 1, <<>>))

OverSwitched(c, sw, e) ==
    IF ~sw.ok
    THEN [ret |-> NilSlice,
          err |-> Err("Invalid arguments, either 1 or 2 numbers for an item, for a range"),
          wrote |-> <<>>, reads |-> <<>>, nblock |-> 0]
    ELSE OverLines(asLines(c, sw.cmd, 224, e))

Over(c, args, e) == OverSwitched(c, OverCmd(args), e)

(***************************************************************************)
(* Client.List.                                                            *)
(***************************************************************************)
parsePosting(p) ==
    IF p = <<"y">> THEN "PostingPermitted"
    ELSE IF p = <<"m">> THEN "PostingModerated"
    ELSE "PostingNotPermitted"

\* the nntp.Group literal of List; the parts are numbered from 1 here
ListGroup(parts) ==
    [Name |-> parts[1], High |-> ParseInt(parts[2]).val, Low |-> ParseInt(parts[3]).val,
     Posting |-> parsePosting(parts[4])]

\* the loop over the lines from index k on, rv being the groups so far; an
\* index past the end of parts panics
RECURSIVE ListLoop(_, _, _)
ListLoop(groupLines, k, rv) ==
    IF k > Len(groupLines) THEN [rv |-> Slice(rv), err |-> NoErr]
    ELSE IF Len(Split(groupLines[k], " ")) < 3 THEN ListLoop(groupLines, k+1, rv)
    ELSE IF ~(ParseInt(Split(groupLines[k], " ")[2]).ok
              /\ ParseInt(Split(groupLines[k], " ")[3]).ok)
    THEN ListLoop(groupLines, k+1, rv)
    ELSE IF Len(Split(groupLines[k], " ")) < 4
    THEN [rv |-> NilSlice, err |-> Err("panic: index out of range")]
    ELSE ListLoop(groupLines, k+1, Append(rv, ListGroup(Split(groupLines[k], " "))))

\* List after the loop returned l
ListReturn(r, l) ==
    [rv |-> l.rv, err |-> l.err, wrote |-> r.wrote, reads |-> r.reads, nblock |-> 1]

\* List after ReadDotLines returned b
ListBlock(r, b) ==
    IF b.err # NoErr
    THEN [rv |-> Slice(<<>>), err |-> b.err, wrote |-> r.wrote, reads |-> r.reads,
          nblock |-> 1]
    ELSE ListReturn(r, ListLoop(b.v.elems, 1, <<>>))

\* List after its Command returned r
ListCommanded(r, blk) ==
    IF r.err # NoErr
    THEN [rv |-> Slice(<<>>), err |-> r.err, wrote |-> r.wrote, reads |-> r.reads,
          nblock |-> 0]
    ELSE ListBlock(r, ReadDotLines(blk))

List(c, sub, e) ==
    ListCommanded(
        Command(c, S_LIST \o (IF sub # <<>> THEN <<" ">> \o sub ELSE sub), 215, e),
        e.blk)

(***************************************************************************)
(* Inputs: what the caller passes and what the transport answers.          *)
(***************************************************************************)
M_OK == <<"o","k">>
M_MORE == <<"m","o","r","e">>
Msgs == {M_OK, M_MORE}

Resps(codes) == {EofResp, ShortResp} \cup {Line(c, m) : c \in codes, m \in Msgs}

\* nothing of the transport is used
NoEnv == [wok |-> FALSE, resp |-> NoResp, blk |-> NoBlock]

\* the transport's part in a command without a data block: the write fails,
\* or it succeeds and a status line is read
CmdEnvs(codes) ==
    {NoEnv} \cup {[wok |-> TRUE, resp |-> r, blk |-> NoBlock] : r \in Resps(codes)}

\* the transport's part in a command whose answer expect is followed by a
\* data block of blocks
LinesEnvs(expect, codes, blocks) ==
    CmdEnvs(codes \ {expect})
    \cup {[wok |-> TRUE, resp |-> Line(expect, M_OK), blk |-> b] : b \in blocks}

\* the sequences over S of length n, and of length at most n
RECURSIVE SeqsOf(_, _)
SeqsOf(S, n) ==
    IF n = 0 THEN {<<>>} ELSE {Append(ls, x) : ls \in SeqsOf(S, n-1), x \in S}
SeqsUpTo(S, n) == UNION {SeqsOf(S, k) : k \in 0..n}

Blocks(lines, n) ==
    {[ok |-> TRUE, lines |-> ls] : ls \in SeqsUpTo(lines, n)}
    \cup {[ok |-> FALSE, lines |-> <<>>]}

\* capability lines as a server sends them
CL_list == <<"l","i","s","t"," ","a","c","t","i","v","e"," ",
             "n","e","w","g","r","o","u","p","s">>
CL_OVER == <<"O","V","E","R">>
CL_OverTab == <<"O","v","e","r","\t","M","S","G","I","D">>
CL_LISTX == <<"L","I","S","T","X">>
CapLines == {CL_list, CL_OVER, CL_OverTab, CL_LISTX}
CapBlocks == Blocks(CapLines, MaxCapLines)

CapLabels == {<<"l","i","s","t">>, <<"O","v","e","r">>, <<"L","I","S","T">>,
              <<"L","I","S","T","X">>, <<"P","O","S","T">>}
CapArgs == {<<"a","c","t","i","v","e">>, <<"M","S","G","I","D">>,
            <<"l","i","s","t">>}

Users == {<<"u">>}
Passes == {<<"p">>}

AuthCodes == {381, 281, 481}
TlsCodes == {382, 580}
CapCodes == {101, 382, 500}

\* Command: any three-digit code against the expected codes of every shape
AllCodes == 100..999
ExpectCodes == {-2, -1, 0} \cup (1..9) \cup {10, 20, 21, 38, 99}
               \cup {100, 200, 215, 299, 382, 999, 1000, 2150}
Cmds == {<<"D","A","T","E">>}

\* Over: the arguments, and overview lines of 1 to 9 tab-separated fields
OverArgVals == {-3, 0, 7, 120}
OverArgs == SeqsUpTo(OverArgVals, MaxOverArgs)
OverFields == << <<"1">>, <<"s">>, <<"f">>, <<"d">>, <<"<","m",">">>, <<"r">>,
                 <<"b">>, <<"l">>, <<"x">> >>
RECURSIVE OverLineOf(_)
OverLineOf(n) ==
    IF n = 1 THEN OverFields[1] ELSE OverLineOf(n-1) \o <<"\t">> \o OverFields[n]
OverLines2 == <<"2">> \o Tail(OverLineOf(8))
OverPool == {OverLineOf(n) : n \in {1, 4, 5, 7, 8, 9}} \cup {OverLines2}
OverBlocks == Blocks(OverPool, MaxOverLines)
OverCodes == {224, 412}

\* List: the pattern, and group lines of 2 to 5 space-separated fields
Subs == {<<>>, <<"a",".","*">>}
GL_y == <<"a",".","b"," ","1","0"," ","1"," ","y">>
GL_m == <<"c"," ","7"," ","3"," ","m">>
GL_n == <<"d"," ","5"," ","2"," ","n">>
GL_badlow == <<"e"," ","9"," ","x"," ","y">>
GL_three == <<"f"," ","3"," ","2">>
GL_threebad == <<"i"," ","x"," ","2">>
GL_two == <<"g"," ","1">>
GL_five == <<"h"," ","4"," ","2"," ","y"," ","z">>
ListPool == {GL_y, GL_m, GL_n, GL_badlow, GL_three, GL_threebad, GL_two, GL_five}
ListBlocks == Blocks(ListPool, MaxListLines)
ListCodes == {215, 502}

(***************************************************************************)
(* The session: Init is the state New and NewConn construct, and each      *)
(* action is one call of a method of Client.                               *)
(***************************************************************************)
Banners == {M_OK}

\* what a call is given: its string arguments, its numbers, and for StartTLS
\* whether the config names a server
Arg(strs, nums, cfg) == [strs |-> strs, nums |-> nums, cfg |-> cfg]
NoArg == Arg(<<>>, <<>>, FALSE)

\* what a call returns beside its error, a field for each type of result
NoVal == [str |-> <<>>, code |-> 0, bool |-> FALSE, lines |-> NilSlice,
          items |-> NilSlice, groups |-> NilSlice, capWrote |-> <<>>,
          capReads |-> <<>>,
          group |-> [Count |-> 0, Low |-> 0, High |-> 0, Name |-> <<>>],
          num |-> 0, reader |-> FALSE, block |-> <<>>, dotOpen |-> FALSE,
          client |-> FALSE, low |-> 0, high |-> 0]

\* a record of one call: what it was given (arg, env), what it wrote and
\* read, and what it returned (err, val)
Call(op, arg, env, r, nblock, val) ==
    [op |-> op, arg |-> arg, env |-> env, wrote |-> r.wrote, reads |-> r.reads,
     nblock |-> nblock, err |-> r.err, val |-> val]

NoIO(err) == [wrote |-> <<>>, reads |-> <<>>, err |-> err]

NoCall == Call("none", NoArg, <<>>, NoIO(NoErr), 0, NoVal)

Init ==
    /\ conn = NewConn(Sock)
    /\ netconn = NilConn
    /\ tls = FALSE
    /\ Banner \in Banners
    /\ capabilities = NilSlice
    /\ fetched = [some |-> FALSE, lines |-> <<>>]
    /\ last = NoCall

\* whether a call reaches its second command, given the first's environment
Reaches2(c, expect, e1) ==
    ~HandshakeFails(c) /\ e1.wok /\ ReadCodeLine(expect, e1.resp).err = NoErr

DoAuthenticate ==
    \E user \in Users, pass \in Passes, e1 \in CmdEnvs(AuthCodes) :
      \E e2 \in IF Reaches2(conn, 381, e1) THEN CmdEnvs(AuthCodes) ELSE {NoEnv} :
        \E r \in {Authenticate(conn, user, pass, e1, e2)} :
          /\ last' = Call("Authenticate", Arg(<<user, pass>>, <<>>, FALSE), <<e1, e2>>,
                          r, 0, [NoVal EXCEPT !.str = r.msg])
          /\ UNCHANGED <<conn, netconn, tls, Banner, capabilities, fetched>>

DoCapabilities ==
    \E e \in LinesEnvs(101, CapCodes, CapBlocks) :
      \E r \in {Capabilities(conn, e)} :
        /\ capabilities' = IF r.set THEN r.caps ELSE capabilities
        /\ fetched' = IF r.err = NoErr THEN [some |-> TRUE, lines |-> e.blk.lines]
                      ELSE fetched
        /\ last' = Call("Capabilities", NoArg, <<e>>, r, r.nblock,
                        [NoVal EXCEPT !.lines = r.caps])
        /\ UNCHANGED <<conn, netconn, tls, Banner>>

DoGetCapability ==
    \E label \in CapLabels :
        /\ last' = Call("GetCapability", Arg(<<label>>, <<>>, FALSE), <<>>,
                        NoIO(NoErr), 0,
                        [NoVal EXCEPT !.str = GetCapability(capabilities, label)])
        /\ UNCHANGED <<conn, netconn, tls, Banner, capabilities, fetched>>

DoHasCapabilityArgument ==
    \E label \in CapLabels, argument \in CapArgs :
      \E r \in {HasCapabilityArgument(capabilities, label, argument)} :
        /\ last' = Call("HasCapabilityArgument",
                        Arg(<<label, argument>>, <<>>, FALSE), <<>>,
                        NoIO(r.err), 0, [NoVal EXCEPT !.bool = r.val])
        /\ UNCHANGED <<conn, netconn, tls, Banner, capabilities, fetched>>

DoStartTLS ==
    \E cfgOK \in BOOLEAN, e1 \in CmdEnvs(TlsCodes) :
      \E e2 \in IF ~tls /\ Reaches2(conn, 382, e1)
                THEN LinesEnvs(101, CapCodes, CapBlocks) ELSE {NoEnv} :
        \E r \in {StartTLS(Session, cfgOK, e1, e2)} :
          /\ conn' = r.conn
          /\ netconn' = r.netconn
          /\ tls' = r.tls
          /\ capabilities' = r.capabilities
          /\ fetched' = IF r.capSet /\ r.err = NoErr
                        THEN [some |-> TRUE, lines |-> e2.blk.lines] ELSE fetched
          /\ last' = Call("StartTLS", Arg(<<>>, <<>>, cfgOK), <<e1, e2>>, r,
                          r.capBlock,
                          [NoVal EXCEPT !.capWrote = r.capWrote,
                                        !.capReads = r.capReads])
          /\ UNCHANGED Banner

Next ==
    \/ DoAuthenticate
    \/ DoCapabilities
    \/ DoGetCapability
    \/ DoHasCapabilityArgument
    \/ DoStartTLS

Spec == Init /\ [][Next]_vars

(***************************************************************************)
(* Command, Over and List change no field of the session: each is checked  *)
(* as a function of its arguments and of the transport's answers, one call *)
(* on a new session.                                                       *)
(***************************************************************************)
DoCommand ==
    /\ last = NoCall
    /\ \E cmd \in Cmds, expectCode \in ExpectCodes, e \in CmdEnvs(AllCodes) :
         \E r \in {Command(conn, cmd, expectCode, e)} :
           /\ last' = Call("Command", Arg(<<cmd>>, <<expectCode>>, FALSE), <<e>>,
                           r, 0, [NoVal EXCEPT !.code = r.code, !.str = r.msg])
           /\ UNCHANGED <<conn, netconn, tls, Banner, capabilities, fetched>>

SpecCommand == Init /\ [][DoCommand]_vars

DoOver ==
    /\ last = NoCall
    /\ \E args \in OverArgs :
         \E e \in IF OverCmd(args).ok THEN LinesEnvs(224, OverCodes, OverBlocks)
                  ELSE {NoEnv} :
           \E r \in {Over(conn, args, e)} :
             /\ last' = Call("Over", Arg(<<>>, args, FALSE), <<e>>, r, r.nblock,
                             [NoVal EXCEPT !.items = r.ret])
             /\ UNCHANGED <<conn, netconn, tls, Banner, capabilities, fetched>>

SpecOver == Init /\ [][DoOver]_vars

DoList ==
    /\ last = NoCall
    /\ \E sub \in Subs, e \in LinesEnvs(215, ListCodes, ListBlocks) :
         \E r \in {List(conn, sub, e)} :
           /\ last' = Call("List", Arg(<<sub>>, <<>>, FALSE), <<e>>, r, r.nblock,
                           [NoVal EXCEPT !.groups = r.rv])
           /\ UNCHANGED <<conn, netconn, tls, Banner, capabilities, fetched>>

SpecList == Init /\ [][DoList]_vars

(***************************************************************************)
(* Client.Group.                                                           *)
(***************************************************************************)
\* the zero nntp.Group with the fields Group has assigned so far
GroupRv(count, low, high, name) ==
    [Count |-> count, Low |-> low, High |-> high, Name |-> name]

\* Group after strings.Split returned parts (numbered from 1 here).  The
\* error set when len(parts) # 4 is overwritten by the next assignment to
\* err; an index past the end of parts panics.
GroupParts(r, parts) ==
    IF ~ParseInt(parts[1]).ok
    THEN [rv |-> GroupRv(0, 0, 0, <<>>), err |-> Err("strconv.ParseInt"),
          wrote |-> r.wrote, reads |-> r.reads]
    ELSE IF Len(parts) < 2
    THEN [rv |-> GroupRv(0, 0, 0, <<>>), err |-> Err("panic: index out of range"),
          wrote |-> r.wrote, reads |-> r.reads]
    ELSE IF ~ParseInt(parts[2]).ok
    THEN [rv |-> GroupRv(ParseInt(parts[1]).val, 0, 0, <<>>),
          err |-> Err("strconv.ParseInt"), wrote |-> r.wrote, reads |-> r.reads]
    ELSE IF Len(parts) < 3
    THEN [rv |-> GroupRv(0, 0, 0, <<>>), err |-> Err("panic: index out of range"),
          wrote |-> r.wrote, reads |-> r.reads]
    ELSE IF ~ParseInt(parts[3]).ok
    THEN [rv |-> GroupRv(ParseInt(parts[1]).val, ParseInt(parts[2]).val, 0, <<>>),
          err |-> Err("strconv.ParseInt"), wrote |-> r.wrote, reads |-> r.reads]
    ELSE IF Len(parts) < 4
    THEN [rv |-> GroupRv(0, 0, 0, <<>>), err |-> Err("panic: index out of range"),
          wrote |-> r.wrote, reads |-> r.reads]
    ELSE [rv |-> GroupRv(ParseInt(parts[1]).val, ParseInt(parts[2]).val,
                         ParseInt(parts[3]).val, parts[4]),
          err |-> NoErr, wrote |-> r.wrote, reads |-> r.reads]

\* Group with the fields read as {count, high, low, name}
GroupCommandedMutSwapped(r) ==
    IF r.err # NoErr
    THEN [rv |-> GroupRv(0, 0, 0, <<>>), err |-> r.err, wrote |-> r.wrote,
          reads |-> r.reads]
    ELSE [GroupParts(r, Split(r.msg, " ")) EXCEPT
             !.rv = GroupRv(@.Count, @.High, @.Low, @.Name)]

\* Group after its Command returned r
GroupCommanded(r) ==
    IF r.err # NoErr
    THEN [rv |-> GroupRv(0, 0, 0, <<>>), err |-> r.err, wrote |-> r.wrote,
          reads |-> r.reads]
    ELSE GroupParts(r, Split(r.msg, " "))

Group(c, name, e) ==
    GroupCommanded(Command(c, <<"G","R","O","U","P"," ">> \o name, 211, e))

\* the group names asked for, and the status messages answered: one to six
\* space-separated fields, numeric or not
GroupMsgs ==
    {<<"5"," ","1","0"," ","2","0"," ","a","l","t",".","t","e","s","t">>,
     <<"5"," ","1","0"," ","2","0">>,
     <<"5"," ","1","0"," ","2","0"," ","a"," ","x">>,
     <<"5"," ","1","0"," ","2","0"," ","a"," ","x"," ","y">>,
     <<"x"," ","1","0"," ","2","0"," ","a">>,
     <<"5"," ","x"," ","2","0"," ","a">>,
     <<"5"," ","1","0"," ","x"," ","a">>,
     <<"5"," ","1","0"," ","2","0"," ">>,
     <<"-","5"," ","+","1"," ","0","2"," ","a">>,
     <<"5"," ","1","0">>, <<"5">>, <<"x">>, <<>>,
     <<"x"," ","y">>, <<"5"," ","1","0"," ","x">>}

DoGroup ==
    /\ last = NoCall
    /\ \E name \in {<<"a">>, <<"a","l","t",".","t","e","s","t">>, <<>>},
          e \in {NoEnv}
                \cup {[wok |-> TRUE, resp |-> r, blk |-> NoBlock] :
                        r \in {EofResp, ShortResp}
                              \cup {Line(c, m) : c \in {211, 411, 480},
                                                 m \in GroupMsgs}} :
         \E r \in {Group(conn, name, e)} :
           /\ last' = Call("Group", Arg(<<name>>, <<>>, FALSE), <<e>>, r, 0,
                           [NoVal EXCEPT !.group = r.rv])
           /\ UNCHANGED <<conn, netconn, tls, Banner, capabilities, fetched>>

SpecGroup == Init /\ [][DoGroup]_vars

(***************************************************************************)
(* Client.Article, Head, Body and articleish.  reader says whether a       *)
(* reader of the body is returned; the body is read through it, later.     *)
(***************************************************************************)
\* articleish after SplitN(msg, " ", 2) returned parts (numbered from 1
\* here); parts[1] of the code is parts[2] here, and indexing it when the
\* message has no space panics
articleishParts(p, resp, parts) ==
    IF ~ParseInt(parts[1]).ok
    THEN [n |-> 0, id |-> <<>>, reader |-> FALSE, err |-> Err("strconv.ParseInt"),
          wrote |-> p.wrote, reads |-> <<resp>>]
    ELSE IF Len(parts) < 2
    THEN [n |-> 0, id |-> <<>>, reader |-> FALSE,
          err |-> Err("panic: index out of range"),
          wrote |-> p.wrote, reads |-> <<resp>>]
    ELSE [n |-> ParseInt(parts[1]).val, id |-> parts[2], reader |-> TRUE,
          err |-> NoErr, wrote |-> p.wrote, reads |-> <<resp>>]

\* articleish after ReadCodeLine(expected) returned r
articleishRead(p, resp, r) ==
    IF r.err # NoErr
    THEN [n |-> 0, id |-> <<>>, reader |-> FALSE, err |-> r.err,
          wrote |-> p.wrote, reads |-> <<resp>>]
    ELSE articleishParts(p, resp, SplitN2(r.msg, " "))

articleish(p, expected, resp) ==
    articleishRead(p, resp, ReadCodeLine(expected, resp))

\* Article, Head and Body after PrintfLine returned p
ArticleWritten(p, expected, resp) ==
    IF p.err # NoErr
    THEN [n |-> 0, id |-> <<>>, reader |-> FALSE, err |-> p.err,
          wrote |-> p.wrote, reads |-> <<>>]
    ELSE articleish(p, expected, resp)

Article(c, specifier, e) ==
    ArticleWritten(
        PrintfLine(c, <<"A","R","T","I","C","L","E"," ">> \o specifier, e.wok),
        220, e.resp)

\* Client.Head (Head is the first element of a sequence in this module)
ClientHead(c, specifier, e) ==
    ArticleWritten(PrintfLine(c, <<"H","E","A","D"," ">> \o specifier, e.wok),
                   221, e.resp)

Body(c, specifier, e) ==
    ArticleWritten(PrintfLine(c, <<"B","O","D","Y"," ">> \o specifier, e.wok),
                   222, e.resp)

\* the specifiers asked for, and the status messages answered
Specifiers == {<<"7">>, <<"<","m",">">>}
ArticleMsgs ==
    {<<"7"," ","<","m",">">>, <<"7">>, <<"x"," ","<","m",">">>, <<>>,
     <<"7"," ","<","m",">"," ","o","k">>, <<" ","7">>, <<"-","3"," ","<","a",">">>,
     <<"7"," ">>, <<"0","1","2"," "," ","i">>}
ArticleEnvs ==
    {NoEnv} \cup {[wok |-> TRUE, resp |-> r, blk |-> NoBlock] :
                    r \in {EofResp, ShortResp}
                          \cup {Line(c, m) : c \in {220, 221, 222, 430},
                                             m \in ArticleMsgs}}

DoArticle ==
    /\ last = NoCall
    /\ \E specifier \in Specifiers, e \in ArticleEnvs :
         \E r \in {Article(conn, specifier, e)} :
           /\ last' = Call("Article", Arg(<<specifier>>, <<>>, FALSE), <<e>>, r, 0,
                           [NoVal EXCEPT !.num = r.n, !.str = r.id,
                                         !.reader = r.reader])
           /\ UNCHANGED <<conn, netconn, tls, Banner, capabilities, fetched>>

DoHead ==
    /\ last = NoCall
    /\ \E specifier \in Specifiers, e \in ArticleEnvs :
         \E r \in {ClientHead(conn, specifier, e)} :
           /\ last' = Call("Head", Arg(<<specifier>>, <<>>, FALSE), <<e>>, r, 0,
                           [NoVal EXCEPT !.num = r.n, !.str = r.id,
                                         !.reader = r.reader])
           /\ UNCHANGED <<conn, netconn, tls, Banner, capabilities, fetched>>

DoBody ==
    /\ last = NoCall
    /\ \E specifier \in Specifiers, e \in ArticleEnvs :
         \E r \in {Body(conn, specifier, e)} :
           /\ last' = Call("Body", Arg(<<specifier>>, <<>>, FALSE), <<e>>, r, 0,
                           [NoVal EXCEPT !.num = r.n, !.str = r.id,
                                         !.reader = r.reader])
           /\ UNCHANGED <<conn, netconn, tls, Banner, capabilities, fetched>>

SpecArticle == Init /\ [][DoArticle \/ DoHead \/ DoBody]_vars

(***************************************************************************)
(* Client.Post.  e1 is the transport's part in the POST command.  e2 gives *)
(* the rest: e2.blk.ok is whether io.Copy succeeds and e2.blk.lines the    *)
(* lines it passed to the block writer (all of the content when it         *)
(* succeeds), e2.wok whether w.Close() writes the terminator, and e2.resp  *)
(* the final status line.  block is what was written through the block     *)
(* writer, the terminator included; dotOpen is whether the block writer is  *)
(* left open.                                                               *)
(***************************************************************************)
\* the dot-encoding of the block writer: a line that starts with a dot gets
\* a second one
RECURSIVE DotEncode(_)
DotEncode(lines) ==
    IF lines = <<>> THEN <<>>
    ELSE <<IF lines[1] # <<>> /\ lines[1][1] = "." THEN <<".">> \o lines[1]
           ELSE lines[1]>> \o DotEncode(Tail(lines))

\* Post after w.Close(), whose error is not looked at, and the last
\* ReadCodeLine returned r2
PostClosed(p, e1, e2, r2) ==
    [err |-> r2.err, wrote |-> p.wrote, reads |-> <<e1.resp, e2.resp>>,
     block |-> DotEncode(e2.blk.lines) \o (IF e2.wok THEN << <<".">> >> ELSE <<>>),
     dotOpen |-> FALSE]

\* Post closing the block and reading the final line after a failed copy too
PostCopiedMutCloses(p, e1, e2) ==
    PostClosed(p, e1, e2, ReadCodeLine(240, e2.resp))

\* Post after io.Copy
PostCopied(p, e1, e2) ==
    IF ~e2.blk.ok
    THEN [err |-> Err("copy"), wrote |-> p.wrote, reads |-> <<e1.resp>>,
          block |-> DotEncode(e2.blk.lines), dotOpen |-> TRUE]
    ELSE PostClosed(p, e1, e2, ReadCodeLine(240, e2.resp))

\* Post after ReadCodeLine(340) returned r1
PostRead(p, r1, e1, e2) ==
    IF r1.err # NoErr
    THEN [err |-> r1.err, wrote |-> p.wrote, reads |-> <<e1.resp>>,
          block |-> <<>>, dotOpen |-> FALSE]
    ELSE PostCopied(p, e1, e2)

\* Post after PrintfLine("POST") returned p
PostWritten(p, e1, e2) ==
    IF p.err # NoErr
    THEN [err |-> p.err, wrote |-> p.wrote, reads |-> <<>>, block |-> <<>>,
          dotOpen |-> FALSE]
    ELSE PostRead(p, ReadCodeLine(340, e1.resp), e1, e2)

Post(c, e1, e2) ==
    PostWritten(PrintfLine(c, <<"P","O","S","T">>, e1.wok), e1, e2)

\* the content posted, and the outcomes of the copy, the close and the last
\* read: a failed copy has passed on a prefix of the content
PostEnvs(content) ==
    {[wok |-> FALSE, resp |-> NoResp,
      blk |-> [ok |-> FALSE, lines |-> SubSeq(content, 1, k)]] : k \in 0..Len(content)}
    \cup {[wok |-> w, resp |-> r, blk |-> [ok |-> TRUE, lines |-> content]] :
            w \in BOOLEAN, r \in Resps({240, 441})}

DoPost ==
    /\ last = NoCall
    /\ \E content \in SeqsUpTo({<<"a">>, <<".","b">>, <<".">>}, MaxPostLines),
          e1 \in CmdEnvs({340, 440}) :
         \E e2 \in IF Reaches2(conn, 340, e1) THEN PostEnvs(content) ELSE {NoEnv} :
           \E r \in {Post(conn, e1, e2)} :
             /\ last' = Call("Post", Arg(content, <<>>, FALSE), <<e1, e2>>, r, 0,
                             [NoVal EXCEPT !.block = r.block, !.dotOpen = r.dotOpen])
             /\ UNCHANGED <<conn, netconn, tls, Banner, capabilities, fetched>>

SpecPost == Init /\ [][DoPost]_vars

(***************************************************************************)
(* New and NewConn of the client.  Before either returns there is no       *)
(* session; a session returned is the Client literal: conn and Banner set, *)
(* the other fields zero.                                                  *)
(***************************************************************************)
\* New and NewConn after conn.ReadCodeLine(200) returned r
Greeted(r, resp) ==
    IF r.err # NoErr
    THEN [client |-> FALSE, conn |-> NewConn(NilConn), Banner |-> <<>>,
          err |-> r.err, wrote |-> <<>>, reads |-> <<resp>>]
    ELSE [client |-> TRUE, conn |-> NewConn(Sock), Banner |-> r.msg,
          err |-> NoErr, wrote |-> <<>>, reads |-> <<resp>>]

\* New(net, addr); dialOK is whether textproto.Dial connects
New(dialOK, resp) ==
    IF ~dialOK
    THEN [client |-> FALSE, conn |-> NewConn(NilConn), Banner |-> <<>>,
          err |-> Err("dial"), wrote |-> <<>>, reads |-> <<>>]
    ELSE Greeted(ReadCodeLine(200, resp), resp)

\* NewConn(establishedConn) of the client
ClientNewConn(resp) == Greeted(ReadCodeLine(200, resp), resp)

\* the greetings a server sends
Greetings == Resps(195..250) \cup {Line(c, M_OK) : c \in {100, 400, 502}}

\* no session yet
InitNew ==
    /\ conn = NewConn(NilConn)
    /\ netconn = NilConn
    /\ tls = FALSE
    /\ Banner = <<>>
    /\ capabilities = NilSlice
    /\ fetched = [some |-> FALSE, lines |-> <<>>]
    /\ last = NoCall

DoNew ==
    /\ last = NoCall
    /\ \E dialOK \in BOOLEAN :
         \E resp \in IF dialOK THEN Greetings ELSE {NoResp} :
           \E r \in {New(dialOK, resp)} :
             /\ conn' = r.conn
             /\ Banner' = r.Banner
             /\ last' = Call("New", Arg(<<>>, <<>>, dialOK),
                             <<[wok |-> FALSE, resp |-> resp, blk |-> NoBlock]>>,
                             r, 0, [NoVal EXCEPT !.client = r.client])
             /\ UNCHANGED <<netconn, tls, capabilities, fetched>>

DoNewConn ==
    /\ last = NoCall
    /\ \E resp \in Greetings :
         \E r \in {ClientNewConn(resp)} :
           /\ conn' = r.conn
           /\ Banner' = r.Banner
           /\ last' = Call("NewConn", NoArg,
                           <<[wok |-> FALSE, resp |-> resp, blk |-> NoBlock]>>,
                           r, 0, [NoVal EXCEPT !.client = r.client])
           /\ UNCHANGED <<netconn, tls, capabilities, fetched>>

SpecNew == InitNew /\ [][DoNew \/ DoNewConn]_vars

(***************************************************************************)
(* parseRange of package nntpserver, as its test TestRangeEmpty expects    *)
(* it: the function itself is not among the sources.                       *)
(***************************************************************************)
\* math.MaxInt64 is 2^63 - 1.  No arithmetic is done on it here, and it
\* stands as the largest integer TLC has, above every number of the inputs.
MaxInt64 == 2147483647

\* parseRange with an open-ended range ending at 0
parseRangeMutOpenZero(spec) ==
    IF spec = <<>> THEN [low |-> 0, high |-> MaxInt64]
    ELSE [low  |-> ParseInt(Split(spec, "-")[1]).val,
          high |-> IF Len(Split(spec, "-")) >= 2
                   THEN ParseInt(Split(spec, "-")[2]).val ELSE MaxInt64]

\* parseRange(spec): the empty string is everything; otherwise the number
\* before the dash is low, and the number after it is high, MaxInt64 when
\* there is none
parseRange(spec) ==
    IF spec = <<>> THEN [low |-> 0, high |-> MaxInt64]
    ELSE [low  |-> ParseInt(Split(spec, "-")[1]).val,
          high |-> IF Len(Split(spec, "-")) >= 2 /\ ParseInt(Split(spec, "-")[2]).ok
                   THEN ParseInt(Split(spec, "-")[2]).val ELSE MaxInt64]

\* the ranges parsed: empty, "n-" and "a-b"
RangeVals == {0, 1, 2, 9, 10, 73, 100, 1845, 1846, 99999}
RangeInputs ==
    {<<>>} \cup {FmtD(n) \o <<"-">> : n \in RangeVals}
    \cup {FmtD(a) \o <<"-">> \o FmtD(b) : a \in RangeVals, b \in RangeVals}

DoParseRange ==
    /\ last = NoCall
    /\ \E spec \in RangeInputs :
         \E r \in {parseRange(spec)} :
           /\ last' = Call("parseRange", Arg(<<spec>>, <<>>, FALSE), <<>>,
                           NoIO(NoErr), 0,
                           [NoVal EXCEPT !.low = r.low, !.high = r.high])
           /\ UNCHANGED <<conn, netconn, tls, Banner, capabilities, fetched>>

SpecRange == Init /\ [][DoParseRange]_vars

(***************************************************************************)
(* Client.ListOverviewFmt and Client.HasTLS, and the calls that assign to  *)
(* no field of the Client, each made once on a session that Capabilities   *)
(* or StartTLS may have changed before.                                     *)
(***************************************************************************)
ListOverviewFmt(c, e) ==
    asLines(c, <<"L","I","S","T"," ","O","V","E","R","V","I","E","W",".","F","M","T">>,
            215, e)

HasTLS == tls

\* ListOverviewFmt keeping the lines it fetched as the capability list
DoListOverviewFmtMutCaches ==
    \E e \in LinesEnvs(215, ListCodes, CapBlocks) :
      \E r \in {ListOverviewFmt(conn, e)} :
        /\ last' = Call("ListOverviewFmt", NoArg, <<e>>, r, r.nblock,
                        [NoVal EXCEPT !.lines = r.v])
        /\ capabilities' = IF r.err = NoErr THEN r.v ELSE capabilities
        /\ UNCHANGED <<conn, netconn, tls, Banner, fetched>>

DoListOverviewFmt ==
    \E e \in LinesEnvs(215, ListCodes, CapBlocks) :
      \E r \in {ListOverviewFmt(conn, e)} :
        /\ last' = Call("ListOverviewFmt", NoArg, <<e>>, r, r.nblock,
                        [NoVal EXCEPT !.lines = r.v])
        /\ UNCHANGED <<conn, netconn, tls, Banner, capabilities, fetched>>

DoHasTLS ==
    /\ last' = Call("HasTLS", NoArg, <<>>, NoIO(NoErr), 0,
                    [NoVal EXCEPT !.bool = HasTLS])
    /\ UNCHANGED <<conn, netconn, tls, Banner, capabilities, fetched>>

\* The sessions the calls are made on: as constructed; after a Capabilities
\* that cached two lines; and either of them after a StartTLS that was
\* answered 382 (its refetch then runs over the new transport).
InitFrame ==
    LET fresh  == [conn |-> NewConn(Sock), netconn |-> NilConn, tls |-> FALSE,
                   capabilities |-> NilSlice, err |-> NoErr, wrote |-> <<>>,
                   reads |-> <<>>, capWrote |-> <<>>, capReads |-> <<>>,
                   capBlock |-> 0, capSet |-> FALSE]
        e101   == [wok |-> TRUE, resp |-> Line(101, M_OK),
                   blk |-> [ok |-> TRUE, lines |-> <<CL_list, CL_OVER>>]]
        e382   == [wok |-> TRUE, resp |-> Line(382, M_OK), blk |-> NoBlock]
        cached == [fresh EXCEPT
                     !.capabilities = Capabilities(NewConn(Sock), e101).caps]
    IN  /\ Banner \in Banners
        /\ last = NoCall
        /\ \E s \in {fresh, cached}
                    \cup {StartTLS(s0, cfgOK, e382, e101) :
                            s0 \in {fresh, cached}, cfgOK \in BOOLEAN} :
             /\ conn = s.conn
             /\ netconn = s.netconn
             /\ tls = s.tls
             /\ capabilities = s.capabilities
             /\ fetched = IF s.capabilities = NilSlice
                          THEN [some |-> FALSE, lines |-> <<>>]
                          ELSE [some |-> TRUE, lines |-> <<CL_list, CL_OVER>>]

SpecFrame ==
    InitFrame /\ [][last = NoCall
                    /\ (\/ DoCommand
                        \/ DoList
                        \/ DoGroup
                        \/ DoArticle
                        \/ DoHead
                        \/ DoBody
                        \/ DoPost
                        \/ DoListOverviewFmt
                        \/ DoOver
                        \/ DoGetCapability
                        \/ DoHasCapabilityArgument
                        \/ DoHasTLS)]_vars

(***************************************************************************)
(* The claims.                                                             *)
(***************************************************************************)
IsPrefix(p, s) == Len(p) <= Len(s) /\ SubSeq(s, 1, Len(p)) = p

\* the status line a call read as its i-th, if it read a well-formed one
ReadLine(i) == Len(last.reads) >= i /\ last.reads[i].kind = "line"

\* C1 as stated: against a response code of 100..999, Command succeeds if
\* and only if expectedCode is -1 or is a non-negative number of at most three
\* digits that are the leading digits of the code; otherwise it returns an
\* error carrying the code and the message.
C1_CommandAsStated ==
    (last.op = "Command" /\ ReadLine(1)) =>
        /\ last.err = NoErr <=>
              \/ last.arg.nums[1] = -1
              \/ /\ last.arg.nums[1] >= 0
                 /\ Len(FmtD(last.arg.nums[1])) <= 3
                 /\ IsPrefix(FmtD(last.arg.nums[1]), FmtD(last.reads[1].code))
        /\ last.err # NoErr =>
              last.err = ProtoErr(last.reads[1].code, last.reads[1].msg)

\* C1 as amended: against a response code of 100..999, Command succeeds if
\* and only if expectedCode is outside 1..999 (the sentinel -1, but also 0,
\* any other negative number and any number of four or more digits), or its
\* digits are the leading digits of the code; otherwise it returns an error
\* carrying the code and the message.  It returns the code and message read.
C1_CommandMatchesPrefix ==
    (last.op = "Command" /\ ReadLine(1)) =>
        /\ last.err = NoErr <=>
              \/ last.arg.nums[1] \notin 1..999
              \/ IsPrefix(FmtD(last.arg.nums[1]), FmtD(last.reads[1].code))
        /\ last.err # NoErr =>
              last.err = ProtoErr(last.reads[1].code, last.reads[1].msg)
        /\ last.val.code = last.reads[1].code /\ last.val.str = last.reads[1].msg

C1_Witness ==
    /\ last.op = "Command"
    /\ last.arg.nums[1] = 2
    /\ last.reads = <<Line(299, M_OK)>>
    /\ last.err = NoErr

\* C2: Authenticate succeeds if and only if it wrote the AUTHINFO USER line,
\* read 381, wrote the AUTHINFO PASS line and read 281; when the answer to
\* AUTHINFO USER is not 381 (or the write failed) it returns that step's
\* error and AUTHINFO PASS is not written; no line is written twice.
C2_AuthenticateSequence ==
    last.op = "Authenticate" =>
        /\ last.err = NoErr <=>
              /\ last.wrote = <<S_AUTHUSER \o last.arg.strs[1], S_AUTHPASS \o last.arg.strs[2]>>
              /\ Len(last.reads) = 2
              /\ ReadLine(1) /\ last.reads[1].code = 381
              /\ ReadLine(2) /\ last.reads[2].code = 281
        /\ ~(ReadLine(1) /\ last.reads[1].code = 381) =>
              /\ last.err # NoErr
              /\ last.wrote \in {<<>>, <<S_AUTHUSER \o last.arg.strs[1]>>}
              /\ Len(last.reads) <= 1
              /\ ReadLine(1) =>
                    last.err = ProtoErr(last.reads[1].code, last.reads[1].msg)
              /\ last.wrote = <<>> => last.reads = <<>>
        /\ IsPrefix(last.wrote, <<S_AUTHUSER \o last.arg.strs[1], S_AUTHPASS \o last.arg.strs[2]>>)
        /\ Len(last.reads) <= Len(last.wrote)

C2_Witness ==
    /\ last.op = "Authenticate"
    /\ last.err = NoErr
    /\ Len(last.wrote) = 2

\* C3: a call of StartTLS on a session whose TLS flag is set returns the
\* error "TLS already active", writes and reads nothing (no STARTTLS line, no
\* CAPABILITIES refetch) and leaves the TLS flag, the transport and the
\* capability cache as they were.
C3_StartTLSWhenActive ==
    [][(tls /\ last'.op = "StartTLS") =>
          /\ last'.err = Err("TLS already active")
          /\ last'.wrote = <<>> /\ last'.reads = <<>> /\ last'.nblock = 0
          /\ last'.val.capWrote = <<>> /\ last'.val.capReads = <<>>
          /\ UNCHANGED <<tls, conn, netconn, capabilities, fetched>>]_vars

C3_Witness ==
    /\ tls
    /\ last.op = "StartTLS"
    /\ last.err = Err("TLS already active")

\* C4: when StartTLS, called with TLS not active, reads 382, the TLS
\* connection is made over the connection the session was created on, the
\* line reader/writer is bound to it, the TLS flag is true, CAPABILITIES is
\* written exactly once on the new transport, and when that fetch succeeds
\* StartTLS returns no error and the cache is the uppercased list.
C4_StartTLSUpgrades ==
    (last.op = "StartTLS" /\ ReadLine(1) /\ last.reads[1].code = 382) =>
        /\ netconn = TlsClient(Sock, last.arg.cfg)
        /\ conn = NewConn(netconn)
        /\ tls
        /\ last.val.capWrote = <<S_CAPABILITIES>>
        /\ (last.env[2].resp.kind = "line" /\ last.env[2].resp.code = 101
            /\ last.env[2].blk.ok) =>
              /\ last.err = NoErr
              /\ Len(capabilities.elems) = Len(last.env[2].blk.lines)
              /\ \A i \in 1..Len(last.env[2].blk.lines) :
                    capabilities.elems[i] = ToUpper(last.env[2].blk.lines[i])

\* C5: the capability cache is unset until a fetch succeeds and is then the
\* lines of the most recent successful fetch, each uppercased, in the
\* server's order (unset again when that fetch had no line); a Capabilities
\* call that fails returns no lines and leaves the cache as it was.
C5_CacheIsLastFetch ==
    /\ [](/\ ~fetched.some => capabilities = NilSlice
          /\ capabilities.isNil \/ fetched.some
          /\ Len(capabilities.elems) = Len(fetched.lines)
          /\ \A i \in 1..Len(fetched.lines) :
                /\ Len(capabilities.elems[i]) = Len(fetched.lines[i])
                /\ \A j \in 1..Len(fetched.lines[i]) :
                      capabilities.elems[i][j] = UpChar(fetched.lines[i][j])
          /\ (last.op = "Capabilities" /\ last.err = NoErr) =>
                last.val.lines = capabilities)
    /\ [][(last'.op = "Capabilities" /\ last'.err # NoErr) =>
             /\ last'.val.lines = NilSlice
             /\ capabilities' = capabilities]_vars

C5_Witness ==
    /\ last.op = "Capabilities"
    /\ last.err # NoErr
    /\ fetched.lines = <<CL_list, CL_OVER>>
    /\ capabilities.elems # fetched.lines
    /\ ~capabilities.isNil

\* the cached lines that GetCapability's label selects: the whole line is the
\* label, or the text before the line's first space or tab is
LabelEnd(line) ==
    IF \E i \in 1..Len(line) : line[i] \in {" ", "\t"}
    THEN (CHOOSE i \in 1..Len(line) :
             line[i] \in {" ", "\t"} /\ \A j \in 1..(i-1) : line[j] \notin {" ", "\t"}) - 1
    ELSE Len(line)
HasLabel(line, label) == line = label \/ SubSeq(line, 1, LabelEnd(line)) = label
Labelled(lines, label) == {i \in 1..Len(lines) : HasLabel(lines[i], ToUpper(label))}
FirstLabelled(lines, label) ==
    lines[CHOOSE i \in Labelled(lines, label) : \A j \in Labelled(lines, label) : i <= j]

\* the tokens of a line after its label
RECURSIVE Tokens(_)
Tokens(s) ==
    IF s = <<>> THEN <<>>
    ELSE IF s[1] \in {" ", "\t"} THEN Tokens(Tail(s))
    ELSE <<SubSeq(s, 1, LabelEnd(s))>> \o Tokens(SubSeq(s, LabelEnd(s) + 1, Len(s)))
TokensAfterLabel(line) ==
    {Tokens(line)[k] : k \in 2..Len(Tokens(line))}

\* C6: HasCapabilityArgument returns the "not yet fetched" error exactly when
\* no Capabilities fetch has ever succeeded, the "no such capability" error
\* when the cache is set and no line has the label, and otherwise true if and
\* only if the argument, uppercased, is a token after the label on the first
\* matching line.
C6_HasCapabilityArgument ==
    last.op = "HasCapabilityArgument" =>
        /\ last.err = Err("Capabilities unpopulated") <=> ~fetched.some
        /\ (fetched.some /\ Labelled(capabilities.elems, last.arg.strs[1]) = {}) =>
              last.err = Err("No such capability")
        /\ (fetched.some /\ Labelled(capabilities.elems, last.arg.strs[1]) # {}) =>
              /\ last.err = NoErr
              /\ last.val.bool <=>
                    ToUpper(last.arg.strs[2]) \in
                        TokensAfterLabel(FirstLabelled(capabilities.elems, last.arg.strs[1]))

CacheExample ==
    << <<"L","I","S","T"," ","A","C","T","I","V","E"," ",
         "N","E","W","G","R","O","U","P","S">>,
       <<"O","V","E","R">> >>

\* C7: GetCapability returns the first cached line that is the uppercased
\* label or whose text before its first space or tab is the uppercased label,
\* and the empty string when there is none or the cache is unset.  With the
\* cache ["LIST ACTIVE NEWGROUPS", "OVER"], GetCapability("list") returns
\* "LIST ACTIVE NEWGROUPS" and HasCapabilityArgument("LIST", "active") true.
C7_GetCapability ==
    /\ last.op = "GetCapability" =>
          /\ Labelled(capabilities.elems, last.arg.strs[1]) = {} => last.val.str = <<>>
          /\ Labelled(capabilities.elems, last.arg.strs[1]) # {} =>
                last.val.str = FirstLabelled(capabilities.elems, last.arg.strs[1])
          /\ capabilities.isNil => last.val.str = <<>>
          /\ (capabilities.elems = CacheExample /\ last.arg.strs = << <<"l","i","s","t">> >>)
                => last.val.str = CacheExample[1]
    /\ (/\ last.op = "HasCapabilityArgument"
        /\ capabilities.elems = CacheExample
        /\ last.arg.strs = << <<"L","I","S","T">>, <<"a","c","t","i","v","e">> >>)
          => (last.err = NoErr /\ last.val.bool)

C7_Witness ==
    /\ last.op = "GetCapability"
    /\ capabilities.elems = CacheExample
    /\ last.arg.strs = << <<"l","i","s","t">> >>
    /\ last.val.str = CacheExample[1]

\* C8: Over with no argument writes exactly OVER, with one argument n
\* writes OVER n, with two arguments (a, b) writes OVER a-b, the numbers in
\* decimal; with three or more arguments it returns the argument-count error,
\* writes nothing and reads nothing.
C8_OverCommandLine ==
    last.op = "Over" =>
        /\ Len(last.arg.nums) >= 3 =>
              /\ last.err = Err("Invalid arguments, either 1 or 2 numbers for an item, for a range")
              /\ last.wrote = <<>> /\ last.reads = <<>> /\ last.nblock = 0
              /\ last.val.items = NilSlice
        /\ Len(last.arg.nums) <= 2 =>
              /\ last.err # Err("Invalid arguments, either 1 or 2 numbers for an item, for a range")
              /\ last.wrote = <<>> <=> ~last.env[1].wok
              /\ Len(last.wrote) <= 1
        /\ (Len(last.arg.nums) = 0 /\ last.wrote # <<>>) => last.wrote[1] = S_OVER
        /\ (Len(last.arg.nums) = 1 /\ last.wrote # <<>>) =>
              /\ last.wrote[1] = S_OVER \o <<" ">> \o FmtD(last.arg.nums[1])
              /\ ParseInt(SubSeq(last.wrote[1], 6, Len(last.wrote[1])))
                    = [ok |-> TRUE, val |-> last.arg.nums[1]]
        /\ (Len(last.arg.nums) = 2 /\ last.wrote # <<>>) =>
              last.wrote[1] = S_OVER \o <<" ">> \o FmtD(last.arg.nums[1])
                                \o <<"-">> \o FmtD(last.arg.nums[2])

C8_Witness ==
    /\ last.op = "Over"
    /\ last.arg.nums = <<7, 120>>
    /\ last.wrote = << <<"O","V","E","R"," ","7","-","1","2","0">> >>

\* the items of the lines that have at least eight tab-separated fields
RECURSIVE EightFieldItems(_)
EightFieldItems(lines) ==
    IF lines = <<>> THEN <<>>
    ELSE (IF Len(Split(lines[1], "\t")) >= 8
          THEN << [Number        |-> Split(lines[1], "\t")[1],
                   Subject       |-> Split(lines[1], "\t")[2],
                   From          |-> Split(lines[1], "\t")[3],
                   Date          |-> Split(lines[1], "\t")[4],
                   MessageId     |-> Split(lines[1], "\t")[5],
                   References    |-> Split(lines[1], "\t")[6],
                   bytesMetadata |-> Split(lines[1], "\t")[7],
                   linesMetadata |-> Split(lines[1], "\t")[8]] >>
          ELSE <<>>)
         \o EightFieldItems(Tail(lines))

\* C9: after a 224 answer and its data block, Over returns without error
\* one item for each line of at least eight tab-separated fields, in the
\* block's order, the fields assigned by position; a line of fewer than eight
\* fields (5, 6 and 7 included) is skipped and does not abort the call.
C9_OverSkipsShortLines ==
    (/\ last.op = "Over"
     /\ ReadLine(1) /\ last.reads[1].code = 224
     /\ last.env[1].blk.ok) =>
        /\ last.err = NoErr
        /\ last.val.items = Slice(EightFieldItems(last.env[1].blk.lines))

\* the groups of the lines of exactly four space-separated fields whose second
\* and third are integers
RECURSIVE WellFormedGroups(_)
WellFormedGroups(lines) ==
    IF lines = <<>> THEN <<>>
    ELSE (IF /\ Len(Split(lines[1], " ")) = 4
             /\ ParseInt(Split(lines[1], " ")[2]).ok
             /\ ParseInt(Split(lines[1], " ")[3]).ok
          THEN << [Name    |-> Split(lines[1], " ")[1],
                   High    |-> ParseInt(Split(lines[1], " ")[2]).val,
                   Low     |-> ParseInt(Split(lines[1], " ")[3]).val,
                   Posting |-> IF Split(lines[1], " ")[4] = <<"y">>
                               THEN "PostingPermitted"
                               ELSE IF Split(lines[1], " ")[4] = <<"m">>
                               THEN "PostingModerated"
                               ELSE "PostingNotPermitted"] >>
          ELSE <<>>)
         \o WellFormedGroups(Tail(lines))

\* C10: after a 215 answer and its data block, List returns without error
\* the groups of the well-formed lines (four space-separated fields, integer
\* high and low), in the block's order, with the posting status y, m or other;
\* a line of fewer than four fields (three included) or with a non-integer
\* high or low is skipped and does not abort the listing.  Lines of more than
\* four fields are left out of the statement.
C10_ListSkipsMalformed ==
    (/\ last.op = "List"
     /\ ReadLine(1) /\ last.reads[1].code = 215
     /\ last.env[1].blk.ok
     /\ \A i \in 1..Len(last.env[1].blk.lines) :
            Len(Split(last.env[1].blk.lines[i], " ")) <= 4) =>
        /\ last.err = NoErr
        /\ last.val.groups = Slice(WellFormedGroups(last.env[1].blk.lines))

\* C11: after a 211 answer whose message does not split on single spaces
\* into exactly four fields (fewer, or more even with three integers first),
\* Group returns a parse error: no Group value and no crash.
C11_GroupNeedsFourFields ==
    (/\ last.op = "Group"
     /\ ReadLine(1) /\ last.reads[1].code = 211
     /\ Len(Split(last.reads[1].msg, " ")) # 4) =>
        /\ last.err # NoErr
        /\ last.err.kind \notin {"panic: index out of range"}
        /\ last.val.group = GroupRv(0, 0, 0, <<>>)

\* C12: after a 211 answer whose message has exactly four space-separated
\* fields, Group reads them as {count, low, high, name}: with three integers
\* it returns no error and those values ("5 10 20 alt.test" gives Count 5,
\* Low 10, High 20, Name "alt.test"), and with a field that is no integer it
\* returns the parse error.  An answer other than 211 returns the mismatch
\* error carrying the code and the message, nothing being parsed.
C12_GroupFourFields ==
    (last.op = "Group" /\ ReadLine(1)) =>
        /\ (last.reads[1].code = 211 /\ Len(Split(last.reads[1].msg, " ")) = 4) =>
              /\ last.err = NoErr <=>
                    \A i \in 1..3 : ParseInt(Split(last.reads[1].msg, " ")[i]).ok
              /\ last.err = NoErr =>
                    /\ FmtD(last.val.group.Count) \in
                          { Split(last.reads[1].msg, " ")[1],
                            Tail(Split(last.reads[1].msg, " ")[1]) }
                    /\ last.val.group.Count = ParseInt(Split(last.reads[1].msg, " ")[1]).val
                    /\ last.val.group.Low = ParseInt(Split(last.reads[1].msg, " ")[2]).val
                    /\ last.val.group.High = ParseInt(Split(last.reads[1].msg, " ")[3]).val
                    /\ last.val.group.Name = Split(last.reads[1].msg, " ")[4]
              /\ last.err # NoErr => last.err = Err("strconv.ParseInt")
              /\ last.reads[1].msg
                    = <<"5"," ","1","0"," ","2","0"," ","a","l","t",".","t","e","s","t">>
                 => /\ last.err = NoErr
                    /\ last.val.group
                          = [Count |-> 5, Low |-> 10, High |-> 20,
                             Name |-> <<"a","l","t",".","t","e","s","t">>]
        /\ last.reads[1].code # 211 =>
              /\ last.err = ProtoErr(last.reads[1].code, last.reads[1].msg)
              /\ last.val.group = [Count |-> 0, Low |-> 0, High |-> 0, Name |-> <<>>]

C12_Witness ==
    /\ last.op = "Group"
    /\ last.err = NoErr
    /\ last.val.group = [Count |-> 5, Low |-> 10, High |-> 20,
                         Name |-> <<"a","l","t",".","t","e","s","t">>]

\* the command word and the code of Article, Head and Body
ArticleVerb(op) ==
    IF op = "Article" THEN <<"A","R","T","I","C","L","E">>
    ELSE IF op = "Head" THEN <<"H","E","A","D">> ELSE <<"B","O","D","Y">>
ArticleCode(op) == IF op = "Article" THEN 220 ELSE IF op = "Head" THEN 221 ELSE 222

\* a status message that splits at its first space into an integer and a rest
Articleish(msg) ==
    \E i \in 1..Len(msg) :
        /\ msg[i] = " "
        /\ \A j \in 1..(i-1) : msg[j] # " "
        /\ ParseInt(SubSeq(msg, 1, i-1)).ok

\* C13: Article, Head and Body write one line, the command word and the
\* specifier, and read at most the status line, no line of the body.  On
\* the code 220, 221, 222 respectively and a message that is an integer, a
\* space and a rest, they return the integer, the rest and a reader, without
\* error.  On another code, or a message without a space or with a first
\* token that is no integer, they return an error with the number 0, an empty
\* id and no reader.
C13_ArticleHeadBody ==
    last.op \in {"Article", "Head", "Body"} =>
        /\ last.wrote \in {<<>>, <<ArticleVerb(last.op) \o <<" ">> \o last.arg.strs[1]>>}
        /\ Len(last.reads) <= Len(last.wrote)
        /\ last.nblock = 0
        /\ (/\ ReadLine(1) /\ last.reads[1].code = ArticleCode(last.op)
            /\ Articleish(last.reads[1].msg)) =>
              /\ last.err = NoErr
              /\ last.val.reader
              /\ FmtD(last.val.num) \o <<" ">> \o last.val.str
                    \in {last.reads[1].msg, Tail(last.reads[1].msg),
                         <<"0">> \o Tail(last.reads[1].msg)}
        /\ ~(/\ ReadLine(1) /\ last.reads[1].code = ArticleCode(last.op)
             /\ Articleish(last.reads[1].msg)) =>
              /\ last.err # NoErr
              /\ last.err.kind # "panic: index out of range"
              /\ last.val.num = 0 /\ last.val.str = <<>> /\ ~last.val.reader

\* C14: Post writes the POST line, reads a status line that must be 340,
\* writes the whole content through the block writer, writes the terminator
\* and reads a status line that must be 240, in this order, and returns
\* success if and only if all of these succeed.  When the first answer is
\* not 340 it returns that error, and no content and no terminator is written.
C14_PostSequence ==
    last.op = "Post" =>
        /\ last.err = NoErr <=>
              /\ last.wrote = << <<"P","O","S","T">> >>
              /\ Len(last.reads) = 2
              /\ ReadLine(1) /\ last.reads[1].code = 340
              /\ last.val.block = DotEncode(last.arg.strs) \o << <<".">> >>
              /\ ReadLine(2) /\ last.reads[2].code = 240
        /\ ~(ReadLine(1) /\ last.reads[1].code = 340) =>
              /\ last.err # NoErr
              /\ ReadLine(1) => last.err = ProtoErr(last.reads[1].code, last.reads[1].msg)
              /\ last.val.block = <<>>
              /\ Len(last.reads) <= 1

\* C15: when the copy of the content fails after the 340 answer, Post
\* returns that error at once: the terminator is not written and the final
\* status line is not read, so the block is left open, holding the part of
\* the content that was copied.
C15_PostCopyFails ==
    (/\ last.op = "Post"
     /\ ReadLine(1) /\ last.reads[1].code = 340
     /\ ~last.env[2].blk.ok) =>
        /\ last.err = Err("copy")
        /\ last.val.block = DotEncode(last.env[2].blk.lines)
        /\ IsPrefix(last.val.block, DotEncode(last.arg.strs))
        /\ \A i \in 1..Len(last.val.block) : last.val.block[i] # <<".">>
        /\ Len(last.reads) = 1
        /\ last.val.dotOpen

C15_Witness ==
    /\ last.op = "Post"
    /\ last.err = Err("copy")
    /\ last.arg.strs = << <<".","b">>, <<"a">> >>
    /\ last.val.block = << <<".",".","b">> >>
    /\ last.val.dotOpen

\* C16: New and NewConn return a session exactly when the greeting line was
\* read and its code is 200 or 201; the session's Banner is the greeting's
\* message, its TLS flag is false and its capability cache is unset.  Any
\* other code, or a failure to read, gives an error and no session.
C16_GreetingMakesSession ==
    last.op \in {"New", "NewConn"} =>
        /\ last.val.client <=> (ReadLine(1) /\ last.reads[1].code \in {200, 201})
        /\ last.val.client =>
              /\ last.err = NoErr
              /\ Banner = last.reads[1].msg
              /\ ~tls
              /\ capabilities = NilSlice
              /\ conn = NewConn(Sock)
        /\ ~last.val.client => last.err # NoErr

\* C17: parseRange gives (0, MaxInt64) for the empty string, (n, MaxInt64)
\* for the open-ended range "n-" and (a, b) for the closed range "a-b"; so
\* low <= high whenever a <= b.  The three ranges of the test are among them.
C17_ParseRange ==
    last.op = "parseRange" =>
        /\ last.arg.strs[1] = <<>> => (last.val.low = 0 /\ last.val.high = MaxInt64)
        /\ \A n \in RangeVals :
              last.arg.strs[1] = FmtD(n) \o <<"-">> =>
                  (last.val.low = n /\ last.val.high = MaxInt64)
        /\ \A a \in RangeVals, b \in RangeVals :
              last.arg.strs[1] = FmtD(a) \o <<"-">> \o FmtD(b) =>
                  /\ last.val.low = a /\ last.val.high = b
                  /\ a <= b => last.val.low <= last.val.high
        /\ last.arg.strs[1] = <<"7","3","-">> =>
              (last.val.low = 73 /\ last.val.high = MaxInt64)
        /\ last.arg.strs[1] = <<"7","3","-","1","8","4","5">> =>
              (last.val.low = 73 /\ last.val.high = 1845)

C17_Witness ==
    /\ last.op = "parseRange"
    /\ last.arg.strs = << <<"7","3","-">> >>
    /\ last.val.low = 73
    /\ last.val.high = MaxInt64

\* C18: every call of Command, List, Group, Article, Head, Body, Post,
\* ListOverviewFmt, Over, GetCapability, HasCapabilityArgument and HasTLS,
\* whether it succeeds or fails, leaves the TLS flag, the transport (the line
\* connection and the raw one), the capability cache and the Banner as they
\* were.
C18_CallsLeaveSession ==
    [][last'.op \in {"Command", "List", "Group", "Article", "Head", "Body",
                     "Post", "ListOverviewFmt", "Over", "GetCapability",
                     "HasCapabilityArgument", "HasTLS"}
       => UNCHANGED <<tls, conn, netconn, capabilities, Banner>>]_vars

\* a ListOverviewFmt that returned its lines on a session whose cache still
\* holds the two capability lines fetched before the call
C18_Witness ==
    /\ last.op = "ListOverviewFmt"
    /\ last.err = NoErr
    /\ last.val.lines.elems = <<CL_OVER>>
    /\ capabilities.elems = <<ToUpper(CL_list), ToUpper(CL_OVER)>>
    /\ ~tls

\* C19: a call of Command writes at most one line and makes at most one read
\* of a status line, the read after the write, and repeats neither.  When the
\* write succeeds the formatted command is the one line written and exactly
\* one read is made, of the transport's next line, whether or not the code
\* matches; when the write fails nothing is read and the call returns
\* (0, "", error).  After a code mismatch the one status line is consumed.
C19_CommandOneWriteOneRead ==
    last.op = "Command" =>
        /\ Len(last.wrote) <= 1
        /\ Len(last.reads) <= 1
        /\ Len(last.reads) <= Len(last.wrote)
        /\ last.env[1].wok =>
              /\ last.wrote = <<Sprintf0(last.arg.strs[1])>>
              /\ last.reads = <<last.env[1].resp>>
        /\ ~last.env[1].wok =>
              /\ last.wrote = <<>>
              /\ last.reads = <<>>
              /\ last.val.code = 0
              /\ last.val.str = <<>>
              /\ last.err # NoErr
        /\ (ReadLine(1) /\ last.err # NoErr) =>
              /\ last.reads = <<last.env[1].resp>>
              /\ last.err = ProtoErr(last.reads[1].code, last.reads[1].msg)

\* a mismatch: 215 expected, 502 answered, one line written and one read
C19_Witness ==
    /\ last.op = "Command"
    /\ last.arg.nums[1] = 215
    /\ last.wrote = <<<<"D","A","T","E">>>>
    /\ last.reads = <<Line(502, M_OK)>>
    /\ last.err = ProtoErr(502, M_OK)

\* C20: when StartTLS, called with TLS not active, reads 382 and its refetch
\* of the capabilities fails, StartTLS returns that error (the call ends by
\* returning it), the TLS flag is true, the transport is the TLS connection
\* made over the session's connection with the line reader/writer bound to
\* it, and the capability cache is what it was before the call.
C20_RefetchFailsUpgraded ==
    [][(/\ ~tls
        /\ last'.op = "StartTLS"
        /\ Len(last'.reads) >= 1
        /\ last'.reads[1].kind = "line"
        /\ last'.reads[1].code = 382
        /\ last'.err # NoErr) =>
          /\ last'.err # Err("panic: nil dereference")
          /\ tls'
          /\ netconn' = TlsClient(Sock, last'.arg.cfg)
          /\ conn' = NewConn(netconn')
          /\ UNCHANGED capabilities]_vars

\* C21: HasTLS() is true exactly when some earlier StartTLS call of the
\* session read 382 in answer to its STARTTLS command.  The flag starts false;
\* a step makes or keeps it true exactly when it was true or the step is a
\* StartTLS that read 382; a StartTLS whose command step fails (the write
\* fails, or the answer is not 382) leaves the flag false and the transport
\* and the capability cache unchanged; the flag never goes back to false; and
\* the transport changes only in the step that sets the flag, so at most once.
C21_FlagIffUpgraded ==
    /\ ~HasTLS
    /\ [][/\ HasTLS' <=> \/ HasTLS
                         \/ /\ last'.op = "StartTLS"
                            /\ Len(last'.reads) >= 1
                            /\ last'.reads[1].kind = "line"
                            /\ last'.reads[1].code = 382
          /\ (/\ ~HasTLS
              /\ last'.op = "StartTLS"
              /\ ~(/\ Len(last'.reads) >= 1
                   /\ last'.reads[1].kind = "line"
                   /\ last'.reads[1].code = 382)) =>
                /\ ~HasTLS'
                /\ last'.err # NoErr
                /\ UNCHANGED <<conn, netconn, capabilities>>
          /\ HasTLS => HasTLS'
          /\ (conn' # conn \/ netconn' # netconn) => (~HasTLS /\ HasTLS')]_vars

\* a session upgraded by a StartTLS that read 382, on which a later call of
\* Capabilities has been made: the flag is still true
C21_Witness ==
    /\ HasTLS
    /\ netconn.kind = "tls"
    /\ conn = NewConn(netconn)
    /\ last.op = "Capabilities"

====
